---- MODULE Spec2Model ----
(***************************************************************************)
(* Model of the scale/readiness convergence pollers of PlatformLibrary     *)
(* (library/integration_library_builtIn/PlatformLibrary.py):               *)
(*   check_service_is_scaled, check_service_of_stateful_sets_is_scaled     *)
(* and of the by-name counting keywords they are built on:                 *)
(*   get_active_deployment_entities_count,                                 *)
(*   get_inactive_deployment_entities_count,                               *)
(*   get_active_stateful_sets_count, get_inactive_stateful_set(s)_count.   *)
(***************************************************************************)
EXTENDS Integers, Sequences, FiniteSets, TLC

(* ---------------------------- bounds ----------------------------------- *)
\* longest list of resource names passed to a keyword
MaxNames == 2
\* largest replica number a status field takes
MaxReplicas == 1

(* ----------------------- values and inputs ----------------------------- *)
\* Python's None in an optional integer status field
None == -1
\* time.sleep(5) of both polling loops
PollInterval == 5

Resources == {"a", "b"}
ReplicaValues == {None} \cup (0..MaxReplicas)
\* timeout arguments tried (seconds)
Timeouts == {-5, 0, 3, 10}

RECURSIVE SeqsUpTo(_, _)
SeqsUpTo(S, n) ==
    IF n = 0 THEN {<<>>}
    ELSE LET shorter == SeqsUpTo(S, n - 1)
         IN  shorter \cup {Append(s, x) : s \in {t \in shorter : Len(t) = n - 1}, x \in S}

NameLists == SeqsUpTo(Resources, MaxNames)

\* a str, one character per element; the resource names have one character
Chars(n) == <<n>>
\* the str of the characters of one piece of a split (a name or '')
StrOf(piece) == IF piece = <<>> THEN "" ELSE piece[1]

\* ' '.join(ns)
RECURSIVE Join(_)
Join(ns) ==
    IF ns = <<>> THEN <<>>
    ELSE IF Len(ns) = 1 THEN Chars(ns[1])
    ELSE Chars(ns[1]) \o <<" ">> \o Join(Tail(ns))

\* s.split(' '): the pieces between the single spaces, '' giving ['']
RECURSIVE Pieces(_)
Pieces(s) ==
    LET spaces == {i \in 1..Len(s) : s[i] = " "} IN
    IF spaces = {} THEN <<s>>
    ELSE LET i == CHOOSE k \in spaces : \A j \in spaces : k <= j
         IN  <<SubSeq(s, 1, i - 1)>> \o Pieces(SubSeq(s, i + 1, Len(s)))

\* list(names.split(' ')) as a list of names
Split(s) == LET ps == Pieces(s) IN [i \in 1..Len(ps) |-> StrOf(ps[i])]

\* direction arguments, one character per element
DirectionArgs ==
    { <<"u", "p">>, <<"U", "P">>, <<"U", "p">>,
      <<"d", "o", "w", "n">>, <<"D", "o", "W", "N">>,
      <<"\"", "U", "P", "\"">>, <<"'", "d", "o", "w", "n", "'">>,
      <<"l", "e", "f", "t">>, <<"u", "p", " ">>, <<>> }

UP == <<"u", "p">>
DOWN == <<"d", "o", "w", "n">>
QuotedDirections ==
    { <<"\"", "u", "p", "\"">>, <<"\"", "d", "o", "w", "n", "\"">>,
      <<"'", "u", "p", "'">>, <<"'", "d", "o", "w", "n", "'">> }

\* str.lower() on one character
LowerChar(c) ==
    CASE c = "U" -> "u"
      [] c = "P" -> "p"
      [] c = "D" -> "d"
      [] c = "O" -> "o"
      [] c = "W" -> "w"
      [] c = "N" -> "n"
      [] c = "L" -> "l"
      [] c = "E" -> "e"
      [] c = "F" -> "f"
      [] c = "T" -> "t"
      [] OTHER -> c

\* str.lower() left out: the direction is compared as passed
Lower_AsPassed(s) == s

\* str.lower()
Lower(s) == [i \in 1..Len(s) |-> LowerChar(s[i])]

\* the upper-case partner of a lower-case letter of "up"/"down"
UpperOf(c) ==
    CASE c = "u" -> "U"
      [] c = "p" -> "P"
      [] c = "d" -> "D"
      [] c = "o" -> "O"
      [] c = "w" -> "W"
      [] c = "n" -> "N"
      [] OTHER -> c

\* all spellings of word w in any letter case
AnyCase(w) ==
    { s \in [1..Len(w) -> {w[i] : i \in 1..Len(w)} \cup {UpperOf(w[i]) : i \in 1..Len(w)}] :
        \A i \in 1..Len(w) : s[i] \in {w[i], UpperOf(w[i])} }

\* "up" or "down" in any letter case
ValidDirectionArg(d) == d \in AnyCase(UP) \cup AnyCase(DOWN)

(* ------------------------- cluster statuses ---------------------------- *)
\* the answer of the API server to a read of a name that does not exist
NotFound ==
    [found |-> FALSE, replicas |-> None, available_replicas |-> None,
     ready_replicas |-> None, unavailable_replicas |-> None]

\* V1DeploymentStatus: replicas, available_replicas, unavailable_replicas
DeploymentStatuses ==
    { [found |-> TRUE, replicas |-> r, available_replicas |-> a,
       ready_replicas |-> None, unavailable_replicas |-> u] :
      r \in ReplicaValues, a \in ReplicaValues, u \in ReplicaValues }

\* V1StatefulSetStatus: replicas, ready_replicas
StatefulSetStatuses ==
    { [found |-> TRUE, replicas |-> r, available_replicas |-> None,
       ready_replicas |-> rr, unavailable_replicas |-> None] :
      r \in ReplicaValues, rr \in ReplicaValues }

\* the replica numbers the pollers are run against: unset, zero, positive
PolledValues == {None, 0, 1}

\* the statuses the deployment poller is run against: it reads
\* status.replicas and status.unavailable_replicas only
PolledDeploymentStatuses ==
    { [found |-> TRUE, replicas |-> r, available_replicas |-> None,
       ready_replicas |-> None, unavailable_replicas |-> u] :
      r \in PolledValues, u \in PolledValues }

\* the statuses the stateful set poller is run against
PolledStatefulSetStatuses ==
    { [found |-> TRUE, replicas |-> r, available_replicas |-> None,
       ready_replicas |-> rr, unavailable_replicas |-> None] :
      r \in PolledValues, rr \in PolledValues }

\* truth value of an optional integer (None and 0 are falsy)
Truthy(v) == v # None /\ v # 0

(* ------------------------ counting conditions -------------------------- *)
\* the condition under which the loop of each counting keyword increments
\* as the by-service keyword of KubernetesClient tests it
get_active_deployment_entities_count_ByAvailable(st) ==
    ~Truthy(st.unavailable_replicas) /\ st.available_replicas # None

get_active_deployment_entities_count(st) ==
    ~Truthy(st.unavailable_replicas) /\ Truthy(st.replicas)

\* "replicas is None" in place of "not replicas"
get_inactive_deployment_entities_count_IsNone(st) ==
    st.replicas = None

get_inactive_deployment_entities_count(st) ==
    ~Truthy(st.replicas)

get_active_stateful_sets_count(st) ==
    st.replicas = st.ready_replicas

\* the comparison with ready_replicas left out
get_inactive_stateful_sets_count_NoReady(st) ==
    ~Truthy(st.replicas)

get_inactive_stateful_sets_count(st) ==
    ~Truthy(st.replicas) \/ st.replicas # st.ready_replicas

\* deprecated alias, delegates
get_inactive_stateful_set_count(st) ==
    get_inactive_stateful_sets_count(st)

CountKeywords ==
    { "get_active_deployment_entities_count",
      "get_inactive_deployment_entities_count",
      "get_active_stateful_sets_count",
      "get_inactive_stateful_sets_count",
      "get_inactive_stateful_set_count" }

DeploymentKeywords ==
    { "check_service_is_scaled",
      "get_active_deployment_entities_count",
      "get_inactive_deployment_entities_count" }

\* does check_func count a resource with status st
Counts(f, st) ==
    CASE f = "get_active_deployment_entities_count" ->
            get_active_deployment_entities_count(st)
      [] f = "get_inactive_deployment_entities_count" ->
            get_inactive_deployment_entities_count(st)
      [] f = "get_active_stateful_sets_count" ->
            get_active_stateful_sets_count(st)
      [] f = "get_inactive_stateful_sets_count" ->
            get_inactive_stateful_sets_count(st)
      [] f = "get_inactive_stateful_set_count" ->
            get_inactive_stateful_set_count(st)
      [] OTHER -> FALSE

(* ------------------------- labels and selectors ------------------------ *)
\* largest number of different label keys
MaxKeys == 2

KeyNames == <<"app", "name", "tier", "zone">>
LabelKeys == {KeyNames[i] : i \in 1..MaxKeys}
LabelValues == {"x", "y"}

\* the dictionaries tried as labels and as selector
Mappings == UNION {[D -> LabelValues] : D \in SUBSET LabelKeys}

\* dict.items(): the (key, value) pairs, one per key
items(d) == {<<k, d[k]>> : k \in DOMAIN d}

\* the short-circuit taken on equal lengths as well
_do_labels_satisfy_selector_ShortOnEqual(l, s) ==
    LET selector_pairs == items(s)
        label_pairs == items(l)
    IN  IF Cardinality(selector_pairs) >= Cardinality(label_pairs)
        THEN FALSE
        ELSE \A pair \in selector_pairs : pair \in label_pairs

\* the loop testing the key of every pair only
_do_labels_satisfy_selector_KeysOnly(l, s) ==
    LET selector_pairs == items(s)
        label_pairs == items(l)
    IN  IF Cardinality(selector_pairs) > Cardinality(label_pairs)
        THEN FALSE
        ELSE \A pair \in selector_pairs : pair[1] \in {q[1] : q \in label_pairs}

\* if len(selector_pairs) > len(label_pairs): return False
\* for pair in selector_pairs: if pair not in label_pairs: return False
\* return True
_do_labels_satisfy_selector(l, s) ==
    LET selector_pairs == items(s)
        label_pairs == items(l)
    IN  IF Cardinality(selector_pairs) > Cardinality(label_pairs)
        THEN FALSE
        ELSE \A pair \in selector_pairs : pair \in label_pairs

(* --------------------------- construction ------------------------------ *)
\* the values of the constructor argument managed_by_operator tried
\* ("omitted" stands for a call without the argument)
OperatorArgs == {"true", "false", "omitted"}

\* self.platform_client = KubernetesClient(self.k8s_api_client)
__init__(m) == "KubernetesClient"

(* ------------------------------ scaling -------------------------------- *)
\* largest spec.replicas a workload is scaled to
MaxScale == 2

Kinds == {"Deployment", "StatefulSet"}
\* a workload: its kind and its name
Workloads == Kinds \X Resources
\* spec.replicas of a scale: unset or a number
ScaleValues == {None} \cup (0..MaxScale)

\* the new spec.replicas each scaling method patches, from the spec.replicas r
\* it read (the methods of OpenShiftClient are the same line by line)
\* KubernetesClient.set_replicas_for_deployment_entity and
\* PlatformLibrary.set_replicas_for_stateful_set: scale.spec.replicas = replicas
set_replicas(r, replicas) == replicas

\* KubernetesClient.scale_up_deployment_entity
scale_up_deployment_entity(r) == IF r = None THEN 1 ELSE r + 1

\* the decrement without the test for zero
scale_down_deployment_entity_NoFloor(r) == IF r = None THEN 0 ELSE r - 1

\* KubernetesClient.scale_down_deployment_entity
scale_down_deployment_entity(r) ==
    IF r = None \/ ~Truthy(r) THEN 0 ELSE r - 1

\* PlatformLibrary.scale_up_stateful_set
scale_up_stateful_set(r) == IF r = None THEN 1 ELSE r + 1

\* PlatformLibrary.scale_down_stateful_set
scale_down_stateful_set(r) == IF ~Truthy(r) THEN 0 ELSE r - 1

ScaleUpKeywords == {"scale_up_deployment_entity", "scale_up_stateful_set"}
ScaleDownKeywords == {"scale_down_deployment_entity", "scale_down_stateful_set"}
SetReplicasKeywords ==
    {"set_replicas_for_deployment_entity", "set_replicas_for_stateful_set"}
ScaleKeywords == ScaleUpKeywords \cup ScaleDownKeywords \cup SetReplicasKeywords

\* the kind of workload a scaling keyword patches
ScaledKind(k) ==
    IF k \in {"scale_up_deployment_entity", "scale_down_deployment_entity",
              "set_replicas_for_deployment_entity"}
    THEN "Deployment" ELSE "StatefulSet"

\* the spec.replicas keyword k patches for a workload read with spec.replicas
\* r (n is the argument replicas of the set_replicas keywords)
Patch(k, r, n) ==
    CASE k = "scale_up_deployment_entity" -> scale_up_deployment_entity(r)
      [] k = "scale_down_deployment_entity" -> scale_down_deployment_entity(r)
      [] k = "set_replicas_for_deployment_entity" -> set_replicas(r, n)
      [] k = "scale_up_stateful_set" -> scale_up_stateful_set(r)
      [] k = "scale_down_stateful_set" -> scale_down_stateful_set(r)
      [] k = "set_replicas_for_stateful_set" -> set_replicas(r, n)

\* the namespaces a test run scales in
ScaleNamespaces == {"ns", "prod"}

\* the arguments keyword k(r, ns) or k(r, ns, n) hands on to platform_client
ClientArgs(k, r, ns, n) ==
    IF k \in SetReplicasKeywords THEN <<r, ns, n>> ELSE <<r, ns>>

\* the same-named operation called twice
ClientCalls_Twice(k, r, ns, n) ==
    IF ScaledKind(k) = "Deployment"
    THEN <<[method |-> k, args |-> ClientArgs(k, r, ns, n)],
           [method |-> k, args |-> ClientArgs(k, r, ns, n)]>>
    ELSE <<>>

\* the platform_client operations keyword k(r, ns) calls, in call order: the
\* deployment keywords call the operation of their own name with their own
\* arguments, the stateful-set keywords use k8s_apps_v1_client themselves
ClientCalls(k, r, ns, n) ==
    IF ScaledKind(k) = "Deployment"
    THEN <<[method |-> k, args |-> ClientArgs(k, r, ns, n)]>>
    ELSE <<>>

(* -------------------------------- pods --------------------------------- *)
\* largest number of pods in the namespace
MaxPods == 2

\* pod names, one character per element
Kafka == <<"k", "a", "f", "k", "a", "-">>
PodNames ==
    { Kafka \o <<"1">>, Kafka \o <<"1", "0">>, Kafka \o <<"2">>,
      <<"z", "k", "-", "1">> }
\* the names asked for: those, and one no pod has
RequestedPodNames == PodNames \cup {Kafka \o <<"3">>}

\* status.pod_ip of the pod of each name
PodIp(n) ==
    CASE n = Kafka \o <<"1">> -> "10.0.0.1"
      [] n = Kafka \o <<"1", "0">> -> "10.0.0.10"
      [] n = Kafka \o <<"2">> -> "10.0.0.2"
      [] OTHER -> "10.0.0.7"

\* the pod lists get_pods returns: every pod once
PodLists ==
    { [i \in 1..Len(ns) |-> [name |-> ns[i], pod_ip |-> PodIp(ns[i])]] :
        ns \in {t \in SeqsUpTo(PodNames, MaxPods) :
                  \A i \in 1..Len(t), j \in 1..Len(t) : t[i] = t[j] => i = j} }

\* Python's "a in b" on two strings: a is a substring of b
IsSubstring(a, b) ==
    \E i \in 0..(Len(b) - Len(a)) : SubSeq(b, i + 1, i + Len(a)) = a

\* for pod in pods: if pod.metadata.name in pod_name: return pod.status.pod_ip
\* return None
look_up_pod_ip_by_pod_name(ps, n) ==
    LET hits == {i \in 1..Len(ps) : IsSubstring(ps[i].name, n)}
    IN  IF hits = {} THEN "None"
        ELSE ps[CHOOSE i \in hits : \A j \in hits : i <= j].pod_ip

(* ----------------------- environment variables ------------------------ *)
\* longest env list of a container
MaxEnv == 2

ContainerNames == {"main", "sidecar"}
\* the container names asked for: those, and one the entity does not have
RequestedContainerNames == ContainerNames \cup {"absent"}
EnvNames == {"A", "B"}
\* the keys of variables_to_change: those, and one no container has
ChangeKeys == EnvNames \cup {"C"}

\* container.env of the container "main": unset (None), or a list of V1EnvVar
MainEnvs ==
    {[has_env |-> FALSE, env |-> <<>>]} \cup
    { [has_env |-> TRUE,
       env |-> [i \in 1..Len(ns) |-> [name |-> ns[i], value |-> "old"]]] :
      ns \in SeqsUpTo(EnvNames, MaxEnv) }

\* container.env of the container "sidecar", when the entity has one
SidecarEnv ==
    [has_env |-> TRUE, env |-> <<[name |-> "A", value |-> "side"]>>]

\* the entities tried: spec.template.spec.containers by container name
Entities ==
    { [c \in {"main"} |-> m] : m \in MainEnvs } \cup
    { [c \in ContainerNames |-> IF c = "main" THEN m ELSE SidecarEnv] :
      m \in MainEnvs }

\* the dictionaries tried as variables_to_change
Changes == UNION {[D -> {"new"}] : D \in SUBSET ChangeKeys}

\* _get_environments_for_container: container.env of the container of that
\* name; None (has_env false) when it has none or no container has the name
_get_environments_for_container(cs, cname) ==
    IF cname \in DOMAIN cs THEN cs[cname]
    ELSE [has_env |-> FALSE, env |-> <<>>]

\* the variables not named in params dropped from the list
set_new_variables_OnlyNamed(dicts, params) ==
    LET Named_(d) == d.name \in DOMAIN params
        updated == [i \in 1..Len(dicts) |->
                      IF dicts[i].name \in DOMAIN params
                      THEN [dicts[i] EXCEPT !.value = params[dicts[i].name]]
                      ELSE dicts[i]]
    IN  SelectSeq(updated, Named_)

\* for dictionary in dicts: if dictionary.name in params.keys():
\*     dictionary.value = params[dictionary.name]
set_new_variables(dicts, params) ==
    [i \in 1..Len(dicts) |->
        IF dicts[i].name \in DOMAIN params
        THEN [dicts[i] EXCEPT !.value = params[dicts[i].name]]
        ELSE dicts[i]]

EnvKeywords ==
    { "set_environment_variables_for_deployment_entity_container",
      "set_environment_variables_for_stateful_set_container" }

(* ------------------------------ state ---------------------------------- *)
VARIABLES
    op,             \* the keyword that was called
    direction,      \* local direction (lower-cased by the poller)
    arg_valid,      \* the direction passed was "up"/"down" in some letter case
    names,          \* deployment_entity_names / stateful_set_names
    timeout,        \* timeout argument
    cluster,        \* status of every resource name in the namespace
    now,            \* time.time()
    timeout_start,  \* local timeout_start
    check_func,     \* local check_func / the running counting keyword
    pc,             \* position in the keyword
    idx,            \* position of the counting loop in names (1-based)
    counter,        \* local counter of the counting loop
    result,         \* "None" while running, "True"/"False" returned, "Raised"
    exc,            \* which exception was raised
    fetches,        \* number of status reads issued so far
    sleeps,         \* number of time.sleep(5) calls so far
    missed,         \* reads of the current counting loop that were not counted
    polls,          \* number of finished counting loops of the poller
    held,           \* all named resources were in the target state so far
    scenario,       \* every read so far agrees with the a/b scenario directory
    labels,         \* argument labels of _do_labels_satisfy_selector
    selector,       \* argument selector of _do_labels_satisfy_selector
    managed_by_operator, \* constructor argument of PlatformLibrary
    platform_client,     \* self.platform_client
    spec_replicas,  \* spec.replicas of the scale of every workload
    patched,        \* workloads whose scale the library has patched so far
    caller,         \* the by-service keyword that called the poller, or "None"
    with_check,     \* argument with_check of the by-service keyword
    other,          \* the local variables of a second poller call of another
                    \* thread on the same instance, while that thread waits
    pods,           \* the pods of the namespace, in the order get_pods lists them
    pod_name,       \* argument pod_name of look_up_pod_ip_by_pod_name
    containers,     \* env of every container of the entity (spec.template.spec)
    container_name, \* argument container_name of the set_environment keywords
    variables_to_change, \* argument variables_to_change of those keywords
    names_as_str,   \* the names are passed to the poller joined by spaces
    client_calls,   \* the scaling calls the running keyword made on platform_client
    namespace,      \* argument namespace of a scaling keyword
    together        \* ghost, where recorded: at some instant of the call every
                    \* named resource was in the target state (once); the poll
                    \* during which a status last changed (changed_in)

vars == <<op, direction, arg_valid, names, timeout, cluster, now,
          timeout_start, check_func, pc, idx, counter, result, exc,
          fetches, sleeps, missed, polls, held, scenario,
          labels, selector, managed_by_operator, platform_client,
          spec_replicas, patched, caller, with_check, other,
          pods, pod_name, containers, container_name, variables_to_change,
          names_as_str, client_calls, namespace, together>>

\* the ghost together where it is not recorded
Untracked == [tracked |-> FALSE, once |-> FALSE, changed_in |-> None]

\* the state outside a poller call and a counting keyword
ext2 == <<pods, pod_name, containers, container_name, variables_to_change,
          names_as_str, client_calls, namespace, together>>

ext == <<labels, selector, managed_by_operator, platform_client,
         spec_replicas, patched, caller, with_check, other, ext2>>

\* the local variables of a poller call that was not made
NoCall ==
    [op |-> "None", direction |-> <<>>, arg_valid |-> FALSE, names |-> <<>>,
     timeout |-> 0, timeout_start |-> 0, check_func |-> "None",
     pc |-> "none", idx |-> 1, counter |-> 0, result |-> "None",
     exc |-> "None", fetches |-> 0, sleeps |-> 0, missed |-> 0, polls |-> 0,
     held |-> FALSE, scenario |-> FALSE]

\* no pod lookup, no change of environment variables and no scaling keyword
\* is under way; names are passed as lists
Ext2Idle ==
    /\ pods = <<>>
    /\ pod_name = <<>>
    /\ containers = <<>>
    /\ container_name = "None"
    /\ variables_to_change = <<>>
    /\ names_as_str = FALSE
    /\ client_calls = <<>>
    /\ namespace = "ns"
    /\ together = Untracked

\* no label matching, no scaling and no by-service keyword is under way
ExtIdle ==
    /\ labels = <<>>
    /\ selector = <<>>
    /\ managed_by_operator = "omitted"
    /\ platform_client = __init__(managed_by_operator)
    /\ spec_replicas = [w \in Workloads |-> None]
    /\ patched = {}
    /\ caller = "None"
    /\ with_check = FALSE
    /\ other = NoCall
    /\ Ext2Idle

\* no poller and no counting keyword is under way
PollerIdle ==
    /\ direction = <<>>
    /\ arg_valid = FALSE
    /\ names = <<>>
    /\ timeout = 0
    /\ cluster = [r \in Resources |-> NotFound]
    /\ now = 0
    /\ timeout_start = 0
    /\ check_func = "None"
    /\ idx = 1
    /\ counter = 0
    /\ exc = "None"
    /\ fetches = 0
    /\ sleeps = 0
    /\ missed = 0
    /\ polls = 0
    /\ held = FALSE
    /\ scenario = FALSE

IsDeploymentOp == op \in DeploymentKeywords

\* the counting keyword a poller selects for a (lower-cased) direction
CheckFuncFor(o, d) ==
    IF o = "check_service_is_scaled"
    THEN IF d = UP THEN "get_active_deployment_entities_count"
                   ELSE "get_inactive_deployment_entities_count"
    ELSE IF d = UP THEN "get_active_stateful_sets_count"
                   ELSE "get_inactive_stateful_set_count"

\* the status read for name n: no resource has a name the cluster lacks
Read(c, n) == IF n \in DOMAIN c THEN c[n] ELSE NotFound

\* every named resource exists and is counted by keyword f in cluster c
AllInTarget(f, ns, c) ==
    \A i \in 1..Len(ns) : Read(c, ns[i]).found /\ Counts(f, Read(c, ns[i]))

\* the scenario call: names a, b; direction up; timeout 10
ScenarioCall(ns, d, t) == ns = <<"a", "b">> /\ d = UP /\ t = 10

\* the scenario directory: a is active from t = 0, b from t = 6
ScenarioActive(n, t) == n = "a" \/ t >= 6

\* the resources a name list names
Named(ns) == {ns[i] : i \in 1..Len(ns)}

\* the namespaces tried hold the named resources only: a keyword never reads
\* a resource it was not given the name of
Namespaces(ns, statuses) ==
    { c \in [Resources -> statuses \cup {NotFound}] :
        \A r \in Resources \ Named(ns) : c[r] = NotFound }

ClusterStatuses(o) ==
    IF o \in DeploymentKeywords THEN PolledDeploymentStatuses \cup {NotFound}
                                ELSE PolledStatefulSetStatuses \cup {NotFound}

(* ------------------------------ Init ----------------------------------- *)
Init ==
    /\ op \in {"check_service_is_scaled", "check_service_of_stateful_sets_is_scaled"}
    /\ direction = <<>>
    /\ arg_valid = FALSE
    /\ names \in NameLists
    /\ timeout \in Timeouts
    /\ cluster \in Namespaces(names, ClusterStatuses(op))
    /\ now = 0
    /\ timeout_start = 0
    /\ check_func = "None"
    /\ pc = "start"
    /\ idx = 1
    /\ counter = 0
    /\ result = "None"
    /\ exc = "None"
    /\ fetches = 0
    /\ sleeps = 0
    /\ missed = 0
    /\ polls = 0
    /\ held = FALSE
    /\ scenario = FALSE
    /\ ExtIdle

(* ----------------------------- actions --------------------------------- *)
Pollers == {"check_service_is_scaled", "check_service_of_stateful_sets_is_scaled"}

\* the keyword ends with an exception e
Raise(e) ==
    /\ pc' = "raised"
    /\ exc' = e
    /\ result' = "Raised"

\* the keyword returns value v
Return(v) ==
    /\ pc' = "done"
    /\ result' = v
    /\ exc' = exc

\* a counting loop starts: counter = 0, first name next
StartCount ==
    /\ idx' = 1
    /\ counter' = 0
    /\ missed' = 0

\* the ghost variable together, where it is recorded, notes an instant at
\* which every name of ns is in the target state of keyword f in cluster c,
\* and the poll under way (polls were completed before it) when the cluster
\* has changed a status during the reads of a poll
TrackTogether(f, ns, c, changed) ==
    together' =
        IF ~together.tracked THEN together
        ELSE [tracked |-> TRUE,
              once |-> together.once \/ AllInTarget(f, ns, c),
              changed_in |-> IF changed THEN polls ELSE together.changed_in]

\* the variables no poller step and no cluster change touches
idle == <<labels, selector, managed_by_operator, platform_client,
          spec_replicas, patched, caller, with_check, other,
          pods, pod_name, containers, container_name, variables_to_change,
          names_as_str, client_calls, namespace>>

\* the ghost variable held follows the cluster
TrackHeld(f, c) == held' = (held /\ AllInTarget(f, names, c))

\* the call with direction argument d: direction = direction.lower(); the
\* two checks of the direction; timeout_start = time.time(); check_func = ...
\* if isinstance(names, str): names = list(names.split(' '))
Validate ==
    /\ pc = "start"
    /\ op \in Pollers
    /\ \E d \in DirectionArgs :
        /\ arg_valid' = ValidDirectionArg(d)
        /\ direction' = Lower(d)
        /\ IF Lower(d) \in QuotedDirections
           THEN /\ Raise("QuoteSymbols")
                /\ UNCHANGED <<names, timeout_start, check_func, held, scenario,
                             together>>
           ELSE IF Lower(d) \notin {UP, DOWN}
           THEN /\ Raise("BadDirection")
                /\ UNCHANGED <<names, timeout_start, check_func, held, scenario,
                             together>>
           ELSE /\ names' = IF names_as_str THEN Split(names) ELSE names
                /\ timeout_start' = now
                /\ check_func' = CheckFuncFor(op, Lower(d))
                /\ pc' = IF op = "check_service_is_scaled" THEN "while" ELSE "count"
                /\ held' = AllInTarget(CheckFuncFor(op, Lower(d)), names', cluster)
                /\ scenario' = ScenarioCall(names', Lower(d), timeout)
                /\ TrackTogether(CheckFuncFor(op, Lower(d)), names', cluster,
                                 FALSE)
                /\ UNCHANGED <<result, exc>>
    /\ UNCHANGED <<op, timeout, cluster, now, idx, counter,
                   fetches, sleeps, missed, polls>>
    /\ UNCHANGED idle

\* the loop head reporting the timeout by an exception
WhileCheck_Raises ==
    /\ pc = "while"
    /\ IF now <= timeout_start + timeout
       THEN /\ pc' = "count"
            /\ StartCount
            /\ UNCHANGED <<result, exc>>
       ELSE /\ Raise("Timeout")
            /\ UNCHANGED <<idx, counter, missed>>
    /\ UNCHANGED <<op, direction, arg_valid, names, timeout, cluster, now,
                   timeout_start, check_func, fetches, sleeps, polls, held,
                   scenario>>
    /\ UNCHANGED ext

\* the loop head with "<" in place of "<="
WhileCheck_Strict ==
    /\ pc = "while"
    /\ IF now < timeout_start + timeout
       THEN /\ pc' = "count"
            /\ StartCount
            /\ UNCHANGED <<result, exc>>
       ELSE /\ Return("False")
            /\ UNCHANGED <<idx, counter, missed>>
    /\ UNCHANGED <<op, direction, arg_valid, names, timeout, cluster, now,
                   timeout_start, check_func, fetches, sleeps, polls, held,
                   scenario>>
    /\ UNCHANGED ext

\* check_service_is_scaled: while time.time() <= timeout_start + timeout
WhileCheck ==
    /\ pc = "while"
    /\ IF now <= timeout_start + timeout
       THEN /\ pc' = "count"
            /\ StartCount
            /\ UNCHANGED <<result, exc>>
       ELSE /\ Return("False")
            /\ UNCHANGED <<idx, counter, missed>>
    /\ UNCHANGED <<op, direction, arg_valid, names, timeout, cluster, now,
                   timeout_start, check_func, fetches, sleeps, polls, held,
                   scenario>>
    /\ UNCHANGED ext

\* the failed read caught inside the loop: the name is skipped as not counted
Fetch_Skip ==
    /\ pc = "count"
    /\ idx <= Len(names)
    /\ fetches' = fetches + 1
    /\ LET st == Read(cluster, names[idx]) IN
        /\ counter' = counter + (IF st.found /\ Counts(check_func, st) THEN 1 ELSE 0)
        /\ missed' = missed + (IF st.found /\ Counts(check_func, st) THEN 0 ELSE 1)
        /\ scenario' = (scenario /\ st.found /\
               (Counts(check_func, st) <=> ScenarioActive(names[idx], now)))
        /\ idx' = idx + 1
        /\ UNCHANGED <<pc, result, exc>>
    /\ UNCHANGED <<op, direction, arg_valid, names, timeout, cluster, now,
                   timeout_start, check_func, sleeps, polls, held>>
    /\ UNCHANGED ext

\* one round of the for loop of a counting keyword: read the status of the
\* next name (the read raises when the name does not exist), test it, count it
Fetch ==
    /\ pc = "count"
    /\ idx <= Len(names)
    /\ fetches' = fetches + 1
    /\ LET st == Read(cluster, names[idx]) IN
        IF ~st.found
        THEN /\ Raise("ApiException")
             /\ scenario' = FALSE
             /\ UNCHANGED <<idx, counter, missed>>
        ELSE /\ counter' = counter + (IF Counts(check_func, st) THEN 1 ELSE 0)
             /\ missed' = missed + (IF Counts(check_func, st) THEN 0 ELSE 1)
             /\ scenario' = (scenario /\
                    (Counts(check_func, st) <=> ScenarioActive(names[idx], now)))
             /\ idx' = idx + 1
             /\ UNCHANGED <<pc, result, exc>>
    /\ UNCHANGED <<op, direction, arg_valid, names, timeout, cluster, now,
                   timeout_start, check_func, sleeps, polls, held>>
    /\ UNCHANGED ext

\* a counting keyword called on its own returns its counter
CountReturn ==
    /\ pc = "count"
    /\ op \in CountKeywords
    /\ idx > Len(names)
    /\ Return("Counter")
    /\ UNCHANGED <<op, direction, arg_valid, names, timeout, cluster, now,
                   timeout_start, check_func, idx, counter, fetches, sleeps,
                   missed, polls, held, scenario>>
    /\ UNCHANGED ext

\* the count compared with the number of distinct names
Compare_Distinct ==
    /\ pc = "count"
    /\ op \in Pollers
    /\ idx > Len(names)
    /\ polls' = polls + 1
    /\ IF Cardinality(Named(names)) = counter
       THEN Return("True")
       ELSE IF op = "check_service_of_stateful_sets_is_scaled"
               /\ now > timeout_start + timeout
       THEN Return("False")
       ELSE /\ pc' = "sleep"
            /\ UNCHANGED <<result, exc>>
    /\ UNCHANGED <<op, direction, arg_valid, names, timeout, cluster, now,
                   timeout_start, check_func, idx, counter, fetches, sleeps,
                   missed, held, scenario>>
    /\ UNCHANGED ext

\* the comparison satisfied by any counted resource
Compare_Partial ==
    /\ pc = "count"
    /\ op \in Pollers
    /\ idx > Len(names)
    /\ polls' = polls + 1
    /\ IF Len(names) = counter \/ counter > 0
       THEN Return("True")
       ELSE IF op = "check_service_of_stateful_sets_is_scaled"
               /\ now > timeout_start + timeout
       THEN Return("False")
       ELSE /\ pc' = "sleep"
            /\ UNCHANGED <<result, exc>>
    /\ UNCHANGED <<op, direction, arg_valid, names, timeout, cluster, now,
                   timeout_start, check_func, idx, counter, fetches, sleeps,
                   missed, held, scenario>>
    /\ UNCHANGED ext

\* the deadline test of the stateful set poller with ">=" in place of ">"
Compare_NonStrict ==
    /\ pc = "count"
    /\ op \in Pollers
    /\ idx > Len(names)
    /\ polls' = polls + 1
    /\ IF Len(names) = counter
       THEN Return("True")
       ELSE IF op = "check_service_of_stateful_sets_is_scaled"
               /\ now >= timeout_start + timeout
       THEN Return("False")
       ELSE /\ pc' = "sleep"
            /\ UNCHANGED <<result, exc>>
    /\ UNCHANGED <<op, direction, arg_valid, names, timeout, cluster, now,
                   timeout_start, check_func, idx, counter, fetches, sleeps,
                   missed, held, scenario>>
    /\ UNCHANGED ext

\* if len(names) == check_func(names, namespace): return True
\* and, in check_service_of_stateful_sets_is_scaled,
\* if time.time() > timeout_start + timeout: return False
Compare ==
    /\ pc = "count"
    /\ op \in Pollers
    /\ idx > Len(names)
    /\ polls' = polls + 1
    /\ IF Len(names) = counter
       THEN Return("True")
       ELSE IF op = "check_service_of_stateful_sets_is_scaled"
               /\ now > timeout_start + timeout
       THEN Return("False")
       ELSE /\ pc' = "sleep"
            /\ UNCHANGED <<result, exc>>
    /\ UNCHANGED <<op, direction, arg_valid, names, timeout, cluster, now,
                   timeout_start, check_func, idx, counter, fetches, sleeps,
                   missed, held, scenario>>
    /\ UNCHANGED ext

\* the wait re-applying the replica number of the direction to every name
Sleep_Rescale ==
    /\ pc = "sleep"
    /\ now' = now + PollInterval
    /\ sleeps' = sleeps + 1
    /\ pc' = IF op = "check_service_is_scaled" THEN "while" ELSE "count"
    /\ StartCount
    /\ LET kind == IF op = "check_service_is_scaled"
                   THEN "Deployment" ELSE "StatefulSet"
           target == IF direction = UP THEN 1 ELSE 0
       IN  /\ spec_replicas' = [w \in Workloads |->
                  IF w[1] = kind /\ w[2] \in Named(names)
                  THEN target ELSE spec_replicas[w]]
           /\ patched' = patched \cup ({kind} \X Named(names))
    /\ UNCHANGED <<op, direction, arg_valid, names, timeout, cluster,
                   timeout_start, check_func, result, exc, fetches, polls, held,
                   scenario>>
    /\ UNCHANGED <<labels, selector, managed_by_operator, platform_client,
                   caller, with_check, other>>
    /\ UNCHANGED ext2

\* the counter of the last poll carried into the next one
Sleep_KeepCount ==
    /\ pc = "sleep"
    /\ now' = now + PollInterval
    /\ sleeps' = sleeps + 1
    /\ pc' = IF op = "check_service_is_scaled" THEN "while" ELSE "count"
    /\ idx' = 1
    /\ UNCHANGED <<op, direction, arg_valid, names, timeout, cluster,
                   timeout_start, check_func, result, exc, fetches, polls, held,
                   scenario, counter, missed>>
    /\ UNCHANGED ext

\* time.sleep(5), then back to the head of the loop
Sleep ==
    /\ pc = "sleep"
    /\ now' = now + PollInterval
    /\ sleeps' = sleeps + 1
    /\ pc' = IF op = "check_service_is_scaled" THEN "while" ELSE "count"
    /\ StartCount
    /\ UNCHANGED <<op, direction, arg_valid, names, timeout, cluster,
                   timeout_start, check_func, result, exc, fetches, polls, held,
                   scenario>>
    /\ UNCHANGED ext

\* the cluster changes the status of a resource while the poller waits
ClusterChange ==
    /\ pc \in {"count", "sleep"}
    /\ op \in Pollers
    /\ \E r \in Named(names) \cap DOMAIN cluster, st \in ClusterStatuses(op) :
        /\ st # cluster[r]
        /\ cluster' = [cluster EXCEPT ![r] = st]
    /\ TrackHeld(check_func, cluster')
    /\ TrackTogether(check_func, names, cluster', pc = "count")
    /\ UNCHANGED <<op, direction, arg_valid, names, timeout, now,
                   timeout_start, check_func, pc, idx, counter, result, exc,
                   fetches, sleeps, missed, polls, scenario>>
    /\ UNCHANGED idle

PollerStep == Validate \/ WhileCheck \/ Fetch \/ Compare \/ Sleep

Next ==
    \/ Validate
    \/ WhileCheck
    \/ Fetch
    \/ Compare
    \/ Sleep
    \/ ClusterChange

Spec == Init /\ [][Next]_vars

\* the interpreter keeps running the keyword it was asked to run
FairSpec == Spec /\ WF_vars(PollerStep)

(* ---------------- the counting keywords called on their own ------------ *)
FullStatuses(o) ==
    IF o \in DeploymentKeywords THEN DeploymentStatuses \cup {NotFound}
                                ELSE StatefulSetStatuses \cup {NotFound}

InitCount ==
    /\ op \in CountKeywords
    /\ direction = <<>>
    /\ arg_valid = FALSE
    /\ names \in NameLists
    /\ timeout = 0
    /\ cluster \in Namespaces(names, FullStatuses(op))
    /\ now = 0
    /\ timeout_start = 0
    /\ check_func = op
    /\ pc = "count"
    /\ idx = 1
    /\ counter = 0
    /\ result = "None"
    /\ exc = "None"
    /\ fetches = 0
    /\ sleeps = 0
    /\ missed = 0
    /\ polls = 0
    /\ held = AllInTarget(op, names, cluster)
    /\ scenario = FALSE
    /\ ExtIdle

NextCount ==
    \/ Fetch
    \/ CountReturn

SpecCount == InitCount /\ [][NextCount]_vars

(* ---------------- _do_labels_satisfy_selector on its own --------------- *)
InitSelector ==
    /\ op = "_do_labels_satisfy_selector"
    /\ pc = "start"
    /\ result = "None"
    /\ PollerIdle
    /\ labels \in Mappings
    /\ selector \in Mappings
    /\ managed_by_operator = "omitted"
    /\ platform_client = __init__(managed_by_operator)
    /\ spec_replicas = [w \in Workloads |-> None]
    /\ patched = {}
    /\ caller = "None"
    /\ with_check = FALSE
    /\ other = NoCall
    /\ Ext2Idle

\* the call _do_labels_satisfy_selector(labels, selector)
Satisfy ==
    /\ op = "_do_labels_satisfy_selector"
    /\ pc = "start"
    /\ pc' = "done"
    /\ result' = IF _do_labels_satisfy_selector(labels, selector)
                 THEN "True" ELSE "False"
    /\ UNCHANGED <<op, direction, arg_valid, names, timeout, cluster, now,
                   timeout_start, check_func, idx, counter, exc, fetches,
                   sleeps, missed, polls, held, scenario>>
    /\ UNCHANGED ext

NextSelector == Satisfy

SpecSelector == InitSelector /\ [][NextSelector]_vars

(* ------------------- scale down by service name ----------------------- *)
ByServiceKeywords ==
    { "scale_down_deployment_entities_by_service_name",
      "scale_down_stateful_sets_by_service_name" }

\* the kind of workload a by-service keyword scales
KindOf(k) ==
    IF k = "scale_down_deployment_entities_by_service_name"
    THEN "Deployment" ELSE "StatefulSet"

\* the poller a by-service keyword calls when with_check is set
PollerOf(k) ==
    IF k = "scale_down_deployment_entities_by_service_name"
    THEN "check_service_is_scaled"
    ELSE "check_service_of_stateful_sets_is_scaled"

\* get_deployment_entity_names_by_service_name / get_stateful_set_names_by_label
\* list every matching workload once
MatchedNameLists == {ns \in NameLists : Cardinality(Named(ns)) = Len(ns)}

\* the keyword was called: the names of the workloads of the service are found
InitByService ==
    /\ caller \in ByServiceKeywords
    /\ op = caller
    /\ with_check \in BOOLEAN
    /\ pc = "scale"
    /\ result = "None"
    /\ direction = <<>>
    /\ arg_valid = FALSE
    /\ names \in MatchedNameLists
    /\ timeout \in Timeouts
    /\ cluster \in Namespaces(names, ClusterStatuses(PollerOf(caller)))
    /\ now = 0
    /\ timeout_start = 0
    /\ check_func = "None"
    /\ idx = 1
    /\ counter = 0
    /\ exc = "None"
    /\ fetches = 0
    /\ sleeps = 0
    /\ missed = 0
    /\ polls = 0
    /\ held = FALSE
    /\ scenario = FALSE
    /\ labels = <<>>
    /\ selector = <<>>
    /\ managed_by_operator = "omitted"
    /\ platform_client = __init__(managed_by_operator)
    /\ \E n \in ScaleValues : spec_replicas = [w \in Workloads |-> n]
    /\ patched = {}
    /\ other = NoCall
    /\ Ext2Idle

\* one round of "for name in names: set_replicas_for_...(name, namespace,
\* replicas=0)": the scale of the workload is read (the read raises when the
\* name does not exist), spec.replicas is set to 0 and the scale is patched
SetReplicasToZero ==
    /\ pc = "scale"
    /\ caller \in ByServiceKeywords
    /\ idx <= Len(names)
    /\ IF ~cluster[names[idx]].found
       THEN /\ Raise("ApiException")
            /\ UNCHANGED <<idx, spec_replicas, patched>>
       ELSE /\ spec_replicas' =
                  [spec_replicas EXCEPT ![<<KindOf(caller), names[idx]>>] = 0]
            /\ patched' = patched \cup {<<KindOf(caller), names[idx]>>}
            /\ idx' = idx + 1
            /\ UNCHANGED <<pc, result, exc>>
    /\ UNCHANGED <<op, direction, arg_valid, names, timeout, cluster, now,
                   timeout_start, check_func, counter, fetches, sleeps,
                   missed, polls, held, scenario>>
    /\ UNCHANGED <<labels, selector, managed_by_operator, platform_client,
                   caller, with_check, other>>
    /\ UNCHANGED ext2

\* if with_check: the poller is called with direction="down"; it lower-cases
\* and accepts the direction, takes timeout_start and picks check_func
CallCheck ==
    /\ pc = "scale"
    /\ caller \in ByServiceKeywords
    /\ idx > Len(names)
    /\ with_check
    /\ op' = PollerOf(caller)
    /\ direction' = Lower(DOWN)
    /\ arg_valid' = ValidDirectionArg(DOWN)
    /\ timeout_start' = now
    /\ check_func' = CheckFuncFor(PollerOf(caller), Lower(DOWN))
    /\ pc' = IF PollerOf(caller) = "check_service_is_scaled"
             THEN "while" ELSE "count"
    /\ StartCount
    /\ held' = AllInTarget(CheckFuncFor(PollerOf(caller), Lower(DOWN)),
                           names, cluster)
    /\ UNCHANGED <<names, timeout, cluster, now, result, exc, fetches, sleeps,
                   polls, scenario>>
    /\ UNCHANGED ext

\* with_check is not set: the keyword returns after the last patch
ReturnUnchecked ==
    /\ pc = "scale"
    /\ caller \in ByServiceKeywords
    /\ idx > Len(names)
    /\ ~with_check
    /\ pc' = "returned"
    /\ UNCHANGED <<op, direction, arg_valid, names, timeout, cluster, now,
                   timeout_start, check_func, idx, counter, result, exc,
                   fetches, sleeps, missed, polls, held, scenario>>
    /\ UNCHANGED ext

\* the poller returned: its value is dropped and the keyword returns None
ReturnChecked ==
    /\ pc = "done"
    /\ caller \in ByServiceKeywords
    /\ pc' = "returned"
    /\ result' = "None"
    /\ UNCHANGED <<op, direction, arg_valid, names, timeout, cluster, now,
                   timeout_start, check_func, idx, counter, exc,
                   fetches, sleeps, missed, polls, held, scenario>>
    /\ UNCHANGED ext

NextByService ==
    \/ SetReplicasToZero
    \/ CallCheck
    \/ ReturnUnchecked
    \/ WhileCheck
    \/ Fetch
    \/ Compare
    \/ Sleep
    \/ ClusterChange
    \/ ReturnChecked

SpecByService == InitByService /\ [][NextByService]_vars

(* ----------------------- the scaling keywords -------------------------- *)
\* the library was constructed; every workload has some spec.replicas
InitScale ==
    /\ op = "None"
    /\ pc = "idle"
    /\ result = "None"
    /\ PollerIdle
    /\ labels = <<>>
    /\ selector = <<>>
    /\ managed_by_operator \in OperatorArgs
    /\ platform_client = __init__(managed_by_operator)
    /\ spec_replicas \in [Workloads -> ScaleValues]
    /\ patched = {}
    /\ caller = "None"
    /\ with_check = FALSE
    /\ other = NoCall
    /\ pods = <<>>
    /\ pod_name = <<>>
    /\ containers = <<>>
    /\ container_name = "None"
    /\ variables_to_change = <<>>
    /\ names_as_str = FALSE
    /\ client_calls = <<>>
    /\ namespace \in ScaleNamespaces
    /\ together = Untracked

\* keyword k called with name r (and replicas = n): the scale of the workload
\* is read, its spec.replicas is recomputed and the scale is patched
ScaleKeyword(k, r, n) ==
    /\ pc = "idle"
    /\ op' = k
    /\ names' = <<r>>
    /\ spec_replicas' = [spec_replicas EXCEPT ![<<ScaledKind(k), r>>] =
                            Patch(k, spec_replicas[<<ScaledKind(k), r>>], n)]
    /\ patched' = patched \cup {<<ScaledKind(k), r>>}
    /\ UNCHANGED <<direction, arg_valid, timeout, cluster, now, timeout_start,
                   check_func, pc, idx, counter, result, exc, fetches, sleeps,
                   missed, polls, held, scenario>>
    /\ client_calls' = ClientCalls(k, r, namespace, n)
    /\ UNCHANGED <<labels, selector, managed_by_operator, platform_client,
                   caller, with_check, other>>
    /\ UNCHANGED <<pods, pod_name, containers, container_name,
                   variables_to_change, names_as_str, namespace, together>>

\* scale_up_deployment_entity / scale_up_stateful_set (up to MaxScale)
ScaleUp ==
    \E k \in ScaleUpKeywords, r \in Resources :
        /\ spec_replicas[<<ScaledKind(k), r>>] < MaxScale
        /\ ScaleKeyword(k, r, 0)

\* scale_down_deployment_entity / scale_down_stateful_set
ScaleDown ==
    \E k \in ScaleDownKeywords, r \in Resources :
        /\ spec_replicas[<<ScaledKind(k), r>>] \in ScaleValues
        /\ ScaleKeyword(k, r, 0)

\* set_replicas_for_deployment_entity / set_replicas_for_stateful_set with a
\* number of replicas n >= 0
SetReplicas ==
    \E k \in SetReplicasKeywords, r \in Resources, n \in 0..MaxScale :
        /\ n >= 0
        /\ ScaleKeyword(k, r, n)

NextScale ==
    \/ ScaleUp
    \/ ScaleDown
    \/ SetReplicas

SpecScale == InitScale /\ [][NextScale]_vars

(* --------------- two poller calls on the same instance ----------------- *)
\* the local variables of the poller call of the running thread
Locals ==
    [op |-> op, direction |-> direction, arg_valid |-> arg_valid,
     names |-> names, timeout |-> timeout, timeout_start |-> timeout_start,
     check_func |-> check_func, pc |-> pc, idx |-> idx, counter |-> counter,
     result |-> result, exc |-> exc, fetches |-> fetches, sleeps |-> sleeps,
     missed |-> missed, polls |-> polls, held |-> held,
     scenario |-> scenario]

\* the name lists and timeouts the two concurrent calls are given
PairNameLists == {<<>>, <<"a">>, <<"b">>, <<"a", "b">>}
PairTimeouts == {0, 5}

\* the statuses the concurrent calls are run against: scaled up, scaled down
PairStatuses ==
    { [found |-> TRUE, replicas |-> r, available_replicas |-> None,
       ready_replicas |-> r, unavailable_replicas |-> None] : r \in {0, 1} }

\* two threads have called a poller of the same kind on one instance; the
\* call of the second thread has not taken a step yet
InitPair ==
    /\ op \in Pollers
    /\ direction = <<>>
    /\ arg_valid = FALSE
    /\ names \in PairNameLists
    /\ timeout \in PairTimeouts
    /\ now = 0
    /\ timeout_start = 0
    /\ check_func = "None"
    /\ pc = "start"
    /\ idx = 1
    /\ counter = 0
    /\ result = "None"
    /\ exc = "None"
    /\ fetches = 0
    /\ sleeps = 0
    /\ missed = 0
    /\ polls = 0
    /\ held = FALSE
    /\ scenario = FALSE
    /\ \E ns \in PairNameLists, t \in PairTimeouts :
          other = [NoCall EXCEPT !.op = op, !.pc = "start", !.names = ns,
                                 !.timeout = t]
    /\ cluster \in Namespaces(names \o other.names, PairStatuses)
    /\ labels = <<>>
    /\ selector = <<>>
    /\ managed_by_operator = "omitted"
    /\ platform_client = __init__(managed_by_operator)
    /\ spec_replicas = [w \in Workloads |-> None]
    /\ patched = {}
    /\ caller = "None"
    /\ with_check = FALSE
    /\ Ext2Idle

\* the counter kept in an attribute of the instance: it stays where it is
\* when the threads are switched
Switch_SharedCounter ==
    /\ other.op \in Pollers
    /\ other' = Locals
    /\ op' = other.op
    /\ direction' = other.direction
    /\ arg_valid' = other.arg_valid
    /\ names' = other.names
    /\ timeout' = other.timeout
    /\ timeout_start' = other.timeout_start
    /\ check_func' = other.check_func
    /\ pc' = other.pc
    /\ idx' = other.idx
    /\ counter' = counter
    /\ result' = other.result
    /\ exc' = other.exc
    /\ fetches' = other.fetches
    /\ sleeps' = other.sleeps
    /\ missed' = other.missed
    /\ polls' = other.polls
    /\ held' = other.held
    /\ scenario' = other.scenario
    /\ UNCHANGED <<cluster, now, labels, selector, managed_by_operator,
                   platform_client, spec_replicas, patched, caller,
                   with_check>>
    /\ UNCHANGED ext2

\* the interpreter switches threads: the running call waits with its local
\* variables (every variable of a poller is a local of the call; a poller
\* assigns no attribute of self and no global), the waiting call runs on
Switch ==
    /\ other.op \in Pollers
    /\ other' = Locals
    /\ op' = other.op
    /\ direction' = other.direction
    /\ arg_valid' = other.arg_valid
    /\ names' = other.names
    /\ timeout' = other.timeout
    /\ timeout_start' = other.timeout_start
    /\ check_func' = other.check_func
    /\ pc' = other.pc
    /\ idx' = other.idx
    /\ counter' = other.counter
    /\ result' = other.result
    /\ exc' = other.exc
    /\ fetches' = other.fetches
    /\ sleeps' = other.sleeps
    /\ missed' = other.missed
    /\ polls' = other.polls
    /\ held' = other.held
    /\ scenario' = other.scenario
    /\ UNCHANGED <<cluster, now, labels, selector, managed_by_operator,
                   platform_client, spec_replicas, patched, caller,
                   with_check>>
    /\ UNCHANGED ext2

\* the cluster scales a resource up or down while the two calls run
ClusterScales ==
    /\ pc \in {"count", "sleep"}
    /\ \E r \in Named(names \o other.names), st \in PairStatuses :
        /\ st # cluster[r]
        /\ cluster' = [cluster EXCEPT ![r] = st]
    /\ UNCHANGED <<op, direction, arg_valid, names, timeout, now,
                   timeout_start, check_func, pc, idx, counter, result, exc,
                   fetches, sleeps, missed, polls, held, scenario>>
    /\ UNCHANGED ext

NextPair ==
    \/ Validate
    \/ WhileCheck
    \/ Fetch
    \/ Compare
    \/ Sleep
    \/ ClusterScales
    \/ Switch

SpecPair == InitPair /\ [][NextPair]_vars

(* ------------------ look_up_pod_ip_by_pod_name on its own -------------- *)
InitPods ==
    /\ op = "look_up_pod_ip_by_pod_name"
    /\ pc = "start"
    /\ result = "None"
    /\ PollerIdle
    /\ labels = <<>>
    /\ selector = <<>>
    /\ managed_by_operator = "omitted"
    /\ platform_client = __init__(managed_by_operator)
    /\ spec_replicas = [w \in Workloads |-> None]
    /\ patched = {}
    /\ caller = "None"
    /\ with_check = FALSE
    /\ other = NoCall
    /\ pods \in PodLists
    /\ pod_name \in RequestedPodNames
    /\ containers = <<>>
    /\ container_name = "None"
    /\ variables_to_change = <<>>
    /\ names_as_str = FALSE
    /\ client_calls = <<>>
    /\ namespace = "ns"
    /\ together = Untracked

\* the call look_up_pod_ip_by_pod_name(pod_name, namespace)
LookUpPodIp ==
    /\ op = "look_up_pod_ip_by_pod_name"
    /\ pc = "start"
    /\ pc' = "done"
    /\ result' = look_up_pod_ip_by_pod_name(pods, pod_name)
    /\ UNCHANGED <<op, direction, arg_valid, names, timeout, cluster, now,
                   timeout_start, check_func, idx, counter, exc, fetches,
                   sleeps, missed, polls, held, scenario>>
    /\ UNCHANGED ext

NextPods == LookUpPodIp

SpecPods == InitPods /\ [][NextPods]_vars

(* ------------------ names passed as one str, not a list ---------------- *)
\* timeout arguments tried with a str of names
NameTimeouts == {0, 3}

\* the pollers called with ' '.join(l) for a list l of names
InitNames ==
    /\ op \in Pollers
    /\ direction = <<>>
    /\ arg_valid = FALSE
    /\ \E l \in NameLists :
        /\ names = Join(l)
        /\ cluster \in Namespaces(l, ClusterStatuses(op))
    /\ timeout \in NameTimeouts
    /\ now = 0
    /\ timeout_start = 0
    /\ check_func = "None"
    /\ pc = "start"
    /\ idx = 1
    /\ counter = 0
    /\ result = "None"
    /\ exc = "None"
    /\ fetches = 0
    /\ sleeps = 0
    /\ missed = 0
    /\ polls = 0
    /\ held = FALSE
    /\ scenario = FALSE
    /\ labels = <<>>
    /\ selector = <<>>
    /\ managed_by_operator = "omitted"
    /\ platform_client = __init__(managed_by_operator)
    /\ spec_replicas = [w \in Workloads |-> None]
    /\ patched = {}
    /\ caller = "None"
    /\ with_check = FALSE
    /\ other = NoCall
    /\ pods = <<>>
    /\ pod_name = <<>>
    /\ containers = <<>>
    /\ container_name = "None"
    /\ variables_to_change = <<>>
    /\ names_as_str = TRUE
    /\ client_calls = <<>>
    /\ namespace = "ns"
    /\ together = Untracked

SpecNames == InitNames /\ [][Next]_vars

(* ------------- the instants at which the target state holds ------------ *)
\* timeout arguments tried with the ghost together recorded
SnapshotTimeouts == {0, 10}

\* a poller call with the ghost together recorded
InitSnapshot ==
    /\ op \in Pollers
    /\ direction = <<>>
    /\ arg_valid = FALSE
    /\ names \in NameLists
    /\ timeout \in SnapshotTimeouts
    /\ cluster \in Namespaces(names, ClusterStatuses(op))
    /\ now = 0
    /\ timeout_start = 0
    /\ check_func = "None"
    /\ pc = "start"
    /\ idx = 1
    /\ counter = 0
    /\ result = "None"
    /\ exc = "None"
    /\ fetches = 0
    /\ sleeps = 0
    /\ missed = 0
    /\ polls = 0
    /\ held = FALSE
    /\ scenario = FALSE
    /\ labels = <<>>
    /\ selector = <<>>
    /\ managed_by_operator = "omitted"
    /\ platform_client = __init__(managed_by_operator)
    /\ spec_replicas = [w \in Workloads |-> None]
    /\ patched = {}
    /\ caller = "None"
    /\ with_check = FALSE
    /\ other = NoCall
    /\ pods = <<>>
    /\ pod_name = <<>>
    /\ containers = <<>>
    /\ container_name = "None"
    /\ variables_to_change = <<>>
    /\ names_as_str = FALSE
    /\ client_calls = <<>>
    /\ namespace = "ns"
    /\ together = [tracked |-> TRUE, once |-> FALSE, changed_in |-> None]

SpecSnapshot == InitSnapshot /\ [][Next]_vars

(* --------------- set_environment_variables_for_..._container ----------- *)
InitEnv ==
    /\ op \in EnvKeywords
    /\ pc = "start"
    /\ result = "None"
    /\ PollerIdle
    /\ labels = <<>>
    /\ selector = <<>>
    /\ managed_by_operator = "omitted"
    /\ platform_client = __init__(managed_by_operator)
    /\ spec_replicas = [w \in Workloads |-> None]
    /\ patched = {}
    /\ caller = "None"
    /\ with_check = FALSE
    /\ other = NoCall
    /\ pods = <<>>
    /\ pod_name = <<>>
    /\ containers \in Entities
    /\ container_name \in RequestedContainerNames
    /\ variables_to_change \in Changes
    /\ names_as_str = FALSE
    /\ client_calls = <<>>
    /\ namespace = "ns"
    /\ together = Untracked

\* the keyword: the entity is read, the env of the named container is
\* updated in place (iterating over None raises TypeError before any patch)
\* and the entity is patched
SetEnvironmentVariables ==
    /\ op \in EnvKeywords
    /\ pc = "start"
    /\ LET environments ==
               _get_environments_for_container(containers, container_name)
       IN  IF ~environments.has_env
           THEN /\ pc' = "raised"
                /\ exc' = "TypeError"
                /\ result' = "Raised"
                /\ UNCHANGED containers
           ELSE /\ containers' =
                     [containers EXCEPT ![container_name].env =
                         set_new_variables(environments.env,
                                           variables_to_change)]
                /\ pc' = "done"
                /\ UNCHANGED <<result, exc>>
    /\ UNCHANGED <<op, direction, arg_valid, names, timeout, cluster, now,
                   timeout_start, check_func, idx, counter, fetches,
                   sleeps, missed, polls, held, scenario>>
    /\ UNCHANGED <<labels, selector, managed_by_operator, platform_client,
                   spec_replicas, patched, caller, with_check, other>>
    /\ UNCHANGED <<pods, pod_name, container_name, variables_to_change,
                   names_as_str, client_calls, namespace, together>>

NextEnv == SetEnvironmentVariables

SpecEnv == InitEnv /\ [][NextEnv]_vars

(* ------------------------------ claims --------------------------------- *)
DirectionErrors == {"QuoteSymbols", "BadDirection"}

\* C1: a direction that is not "up"/"down" after lower-casing (quoted variants
\* included) makes both pollers raise before any status read and without
\* sleeping; "up"/"down" in any letter case never raises that exception.
C1_DirectionValidated ==
    /\ (pc # "start" /\ ~arg_valid) =>
          /\ pc = "raised"
          /\ exc \in DirectionErrors
          /\ fetches = 0
          /\ sleeps = 0
    /\ arg_valid => exc \notin DirectionErrors

C1_Witness ==
    /\ pc = "raised"
    /\ exc = "QuoteSymbols"
    /\ direction = <<"\"", "u", "p", "\"">>
    /\ fetches = 0

\* C2 (as claimed): for a non-empty name list, a valid direction and every
\* timeout, when every named resource is and stays in the target state, both
\* pollers return True on the first iteration and never sleep.
C2_AlreadyScaledReturnsTrue ==
    (pc # "start" /\ arg_valid /\ names # <<>> /\ held) =>
        /\ sleeps = 0
        /\ polls <= 1
        /\ pc # "raised"
        /\ pc = "done" => (result = "True" /\ polls = 1)

\* C3: a poller returns True only when, in the counting loop that decided,
\* every entry of the name list was read and counted: the count equals the
\* length of the list and no entry missed the predicate.
C3_AllOrNothing ==
    (pc = "done" /\ result = "True") =>
        /\ counter = Len(names)
        /\ missed = 0
        /\ idx = Len(names) + 1

C3_Witness ==
    /\ pc = "done"
    /\ result = "True"
    /\ Len(names) = 2
    /\ names[1] # names[2]
    /\ polls >= 2

\* some named resource r exists, like all named ones, and is not in the
\* target state of the call
NotConvergedOn(r) ==
    /\ r \in Named(names)
    /\ \A i \in 1..Len(names) : cluster[names[i]].found
    /\ pc = "start" \/ (arg_valid /\ ~Counts(check_func, cluster[r]))

\* C4: when a named resource never reaches the target state (and every read
\* succeeds), both polling loops end, and they end by returning False, not
\* by raising.
C4_TimeoutReturnsFalse ==
    \A r \in Resources :
        [](NotConvergedOn(r)) => <>(pc = "done" /\ result = "False")

C4_Witness ==
    /\ pc = "done"
    /\ result = "False"
    /\ exc = "None"
    /\ sleeps >= 2
    /\ polls >= 2
    /\ timeout = 10
    /\ names # <<>>
    /\ ~held

\* elapsed time since the recorded start timestamp
Elapsed == now - timeout_start

\* C5 (as claimed): with instantaneous reads and 5 second sleeps a poller that
\* never converges returns False at an elapsed time E with T <= E < T + 5
\* (stated here for the timeouts T >= 0).
C5_ElapsedWithinClaimedWindow ==
    (pc = "done" /\ result = "False" /\ timeout >= 0) =>
        (timeout <= Elapsed /\ Elapsed < timeout + PollInterval)

\* C5 (amended): the deadline test is strict, so for T >= 0 the poller returns
\* False at the first multiple of 5 after T: T < E <= T + 5; for T < 0 it
\* returns False at E = 0.
C5_ElapsedWindow ==
    (pc = "done" /\ result = "False") =>
        /\ timeout >= 0 =>
              /\ timeout < Elapsed
              /\ Elapsed <= timeout + PollInterval
              /\ Elapsed = PollInterval * sleeps
        /\ timeout < 0 => Elapsed = 0

C5_Witness ==
    /\ pc = "done"
    /\ result = "False"
    /\ timeout = 10
    /\ Elapsed = 15

\* the scenario of C6 ran to its end
ScenarioDone ==
    /\ pc = "done"
    /\ ScenarioCall(names, direction, timeout)
    /\ scenario

\* C6 (as claimed): names a, b; up; timeout 10; a active from t = 0, b from
\* t = 6: polls at t = 0 and t = 5, then at t = 10 returns False without a
\* further poll.
C6_ScenarioReturnsFalse ==
    ScenarioDone => (result = "False" /\ polls = 2)

\* C6 (amended): in that scenario the elapsed time 10 does not exceed the
\* timeout 10, so a third poll runs at t = 10, counts 2 and the call returns
\* True.
C6_ScenarioReturnsTrue ==
    ScenarioDone =>
        /\ result = "True"
        /\ polls = 3
        /\ sleeps = 2
        /\ now = 10
        /\ counter = 2

C6_Witness ==
    /\ ScenarioDone
    /\ op = "check_service_is_scaled"
    /\ polls = 3

\* the value a counting keyword returned when called on its own
Returned(keyword) == pc = "done" /\ op = keyword /\ result = "Counter"

\* the number of entries of the name list whose status satisfies P
NumberOf(P(_)) == Cardinality({i \in 1..Len(names) : P(cluster[names[i]])})

\* zero or unset
ZeroOrUnset(v) == v = 0 \/ v = None

\* C7 (as claimed): a deployment is counted active iff unavailableReplicas is
\* zero or unset and availableReplicas is set and non-zero.
ClaimedActiveDeployment(st) ==
    ZeroOrUnset(st.unavailable_replicas) /\ ~ZeroOrUnset(st.available_replicas)

C7_ActiveByAvailableReplicas ==
    Returned("get_active_deployment_entities_count") =>
        counter = NumberOf(ClaimedActiveDeployment)

\* C7 (amended): a deployment is counted active iff unavailableReplicas is
\* zero or unset and status.replicas is set and non-zero; availableReplicas
\* is not read.
ActiveDeployment(st) ==
    ZeroOrUnset(st.unavailable_replicas) /\ ~ZeroOrUnset(st.replicas)

C7_ActiveByReplicas ==
    Returned("get_active_deployment_entities_count") =>
        counter = NumberOf(ActiveDeployment)

C7_Witness ==
    /\ Returned("get_active_deployment_entities_count")
    /\ names = <<"a", "b">>
    /\ counter = 1
    /\ cluster["a"].replicas = 1
    /\ cluster["a"].available_replicas = None
    /\ cluster["a"].unavailable_replicas = 0

\* C8 (as claimed): a deployment is counted inactive iff replicas is zero or
\* unset or unavailableReplicas is set and non-zero.
ClaimedInactiveDeployment(st) ==
    ZeroOrUnset(st.replicas) \/ ~ZeroOrUnset(st.unavailable_replicas)

C8_InactiveByReplicasOrUnavailable ==
    Returned("get_inactive_deployment_entities_count") =>
        counter = NumberOf(ClaimedInactiveDeployment)

\* C8 (amended): a deployment is counted inactive iff replicas is zero or
\* unset; unavailableReplicas is not read.
InactiveDeployment(st) == ZeroOrUnset(st.replicas)

C8_InactiveByReplicas ==
    Returned("get_inactive_deployment_entities_count") =>
        counter = NumberOf(InactiveDeployment)

C8_Witness ==
    /\ Returned("get_inactive_deployment_entities_count")
    /\ names = <<"a", "b">>
    /\ counter = 1
    /\ cluster["a"].replicas = 0
    /\ cluster["b"].replicas = 1
    /\ cluster["b"].unavailable_replicas = 1

\* C9 (as claimed): a stateful set is counted active iff status.replicas and
\* status.ready_replicas are both defined and equal; with both unset it is
\* not counted.
ClaimedActiveStatefulSet(st) ==
    /\ st.replicas # None
    /\ st.ready_replicas # None
    /\ st.replicas = st.ready_replicas

C9_ActiveWhenDefinedAndEqual ==
    Returned("get_active_stateful_sets_count") =>
        counter = NumberOf(ClaimedActiveStatefulSet)

\* C10: a stateful set is counted inactive, by the keyword and by its
\* deprecated alias, iff status.replicas is zero or unset or differs from
\* status.ready_replicas.
InactiveStatefulSet(st) ==
    ZeroOrUnset(st.replicas) \/ ~(st.replicas = st.ready_replicas)

C10_InactiveStatefulSets ==
    (Returned("get_inactive_stateful_sets_count")
        \/ Returned("get_inactive_stateful_set_count")) =>
        counter = NumberOf(InactiveStatefulSet)

C10_Witness ==
    /\ Returned("get_inactive_stateful_set_count")
    /\ names = <<"a", "b">>
    /\ counter = 1
    /\ cluster["a"].replicas = 1
    /\ cluster["a"].ready_replicas = 0
    /\ cluster["b"].replicas = 1
    /\ cluster["b"].ready_replicas = 1

\* the matcher returned for the labels and the selector it was called with
Matched == op = "_do_labels_satisfy_selector" /\ pc = "done"

\* C11: _do_labels_satisfy_selector returns True iff every key of the
\* selector is a key of the labels with the identical value: True for the
\* empty selector whatever the labels, True for empty labels exactly when the
\* selector is empty, and extra keys of the labels do not matter.
C11_SelectorContained ==
    Matched =>
        /\ (result = "True") <=>
              (\A k \in DOMAIN selector :
                  k \in DOMAIN labels /\ labels[k] = selector[k])
        /\ DOMAIN selector = {} => result = "True"
        /\ DOMAIN labels = {} => ((result = "True") <=> DOMAIN selector = {})
        /\ result \in {"True", "False"}

C11_Witness ==
    /\ Matched
    /\ result = "True"
    /\ DOMAIN selector = {"app"}
    /\ DOMAIN labels = {"app", "name"}

\* the pairwise containment check without the comparison of the lengths
PairwiseContained(l, s) == \A pair \in items(s) : pair \in items(l)

\* C12: the length short-circuit (False when the selector has more pairs
\* than the labels) never changes the result: the matcher returns what the
\* plain pairwise containment check returns.
C12_ShortCircuitRedundant ==
    Matched => ((result = "True") <=> PairwiseContained(labels, selector))

\* the short-circuit was taken
C12_Witness ==
    /\ Matched
    /\ result = "False"
    /\ Cardinality(DOMAIN selector) > Cardinality(DOMAIN labels)
    /\ DOMAIN labels # {}

\* the next status read of the running poller is of a name that does not exist
NextReadFails ==
    /\ op \in Pollers
    /\ pc = "count"
    /\ idx <= Len(names)
    /\ ~cluster[names[idx]].found

\* C13: when a status read raises in any poll iteration, the exception leaves
\* the poller: the call ends raised, returns no boolean, and issues no
\* further read and no further sleep after the failed read.
C13_FetchFailurePropagates ==
    [][ /\ (NextReadFails /\ fetches' # fetches) =>
              /\ pc' = "raised"
              /\ exc' = "ApiException"
              /\ result' = "Raised"
        /\ exc = "ApiException" =>
              /\ fetches' = fetches
              /\ sleeps' = sleeps
              /\ pc' = "raised"
              /\ result' = "Raised" ]_vars

\* a read failed in a later iteration, after a sleep
C13_Witness ==
    /\ op \in Pollers
    /\ pc = "raised"
    /\ exc = "ApiException"
    /\ result = "Raised"
    /\ sleeps >= 1
    /\ polls >= 1

\* C14 (as claimed): for an empty list of names and a valid direction both
\* pollers return True at once, for every timeout, without a status read and
\* without sleeping.
C14_EmptyNamesReturnTrue ==
    (op \in Pollers /\ pc # "start" /\ arg_valid /\ names = <<>>) =>
        /\ fetches = 0
        /\ sleeps = 0
        /\ pc # "raised"
        /\ pc = "done" => result = "True"

\* a name occurs more than once in the list
HasRepeatedName(ns) ==
    \E i \in 1..Len(ns), j \in 1..Len(ns) : i < j /\ ns[i] = ns[j]

\* a poller called with a repeated name, every named resource in the target
\* state since the call
RepeatedAndHeld ==
    /\ op \in Pollers
    /\ pc # "start"
    /\ arg_valid
    /\ HasRepeatedName(names)
    /\ held

CheckedScaleDownReturned ==
    /\ caller \in ByServiceKeywords
    /\ with_check
    /\ pc = "returned"

\* C18 (as claimed): when a by-service scale-down called with with_check=True
\* returns normally, every matched workload was counted inactive in a poll
\* before the return: a timeout of the wait is not taken for success (stated
\* here for the timeouts T >= 0).
C18_CheckedScaleDownObserved ==
    (CheckedScaleDownReturned /\ timeout >= 0) =>
        /\ polls >= 1
        /\ counter = Len(names)
        /\ missed = 0

\* a poller call is under way
PollerRunning ==
    /\ op \in Pollers
    /\ pc \in {"start", "while", "count", "sleep"}

\* C16: during a call of either poller the only cluster operations issued
\* are status reads, one name at a time: no step of the poller patches a
\* scale or changes spec.replicas, and a step in which the status of a
\* resource changes is no step of the poller, whatever the call ends with.
C16_PollerOnlyReads ==
    [][ PollerRunning =>
          /\ spec_replicas' = spec_replicas
          /\ patched' = patched
          /\ fetches' \in {fetches, fetches + 1}
          /\ cluster' # cluster =>
                UNCHANGED <<pc, idx, counter, result, exc, fetches, sleeps,
                            polls, now>> ]_vars

\* a poller read, slept, read again and ended with the exception of a read
C16_Witness ==
    /\ op \in Pollers
    /\ pc = "raised"
    /\ fetches >= 2
    /\ sleeps >= 1
    /\ patched = {}
    /\ exc = "ApiException"

\* the client the constructor is documented to choose
DocumentedClient(m) ==
    IF m = "true" THEN "KubernetesClient" ELSE "OpenShiftClient"

\* C19 (as claimed): the platform client is chosen at construction by
\* managed_by_operator: the Kubernetes client for "true", the OpenShift client
\* for "false" and for the omitted argument.
C19_ClientChosenByArgument ==
    platform_client = DocumentedClient(managed_by_operator)

\* the workload the last scaling keyword patched
Target == <<ScaledKind(op), names[1]>>

\* spec.replicas after a scale-down by one, as claimed
DownByOne(r) == IF r > 0 THEN r - 1 ELSE 0

\* C20: a scale-down by one patches spec.replicas to r - 1 when r is positive
\* and to 0 when r is 0 or unset, so that after any sequence of scale_up,
\* scale_down and set_replicas(n >= 0) the spec.replicas of every workload
\* the library patched is a number >= 0.
C20_ReplicasNeverNegative ==
    /\ [](\A w \in patched : spec_replicas[w] >= 0)
    /\ [][ (op' \in ScaleDownKeywords /\ patched' # {}) =>
             \A w \in Workloads :
                 \/ spec_replicas'[w] = spec_replicas[w]
                 \/ /\ w = <<ScaledKind(op'), names'[1]>>
                    /\ spec_replicas'[w] = DownByOne(spec_replicas[w]) ]_vars

\* a scale-down left a workload at 0 replicas, another one was scaled up
C20_Witness ==
    /\ op \in ScaleDownKeywords
    /\ Target \in patched
    /\ spec_replicas[Target] = 0
    /\ \E w \in patched : spec_replicas[w] = MaxScale

\* what a poller call with local variables c does when it runs alone: it
\* reads its own names in order and accounts for every read, returns True
\* only from a poll that counted all of its names, sleeps only after a poll
\* that missed one, and returns False only after its own deadline
RunsAsAlone(c) ==
    /\ c.pc \in {"count", "sleep"} =>
          /\ c.idx <= Len(c.names) + 1
          /\ c.counter + c.missed = c.idx - 1
          /\ c.fetches = c.polls * Len(c.names) + c.idx - 1
                          - (IF c.pc = "sleep" THEN Len(c.names) ELSE 0)
    /\ c.pc = "sleep" => (c.missed > 0 /\ c.idx = Len(c.names) + 1)
    /\ (c.pc = "done" /\ c.result = "True") =>
          /\ c.counter = Len(c.names)
          /\ c.missed = 0
          /\ c.idx = Len(c.names) + 1
    /\ (c.pc = "done" /\ c.result = "False") =>
          now > c.timeout_start + c.timeout

\* C17: two poller calls running concurrently on one instance share no
\* mutable state: the local variables of the waiting call change in no step
\* of the running call, no attribute of the instance changes, and each call
\* decides from its own arguments, its own start timestamp and the statuses
\* it read itself, as it would alone.
C17_CallsIndependent ==
    /\ [](RunsAsAlone(Locals) /\ RunsAsAlone(other))
    /\ [][ /\ other' # other => (other' = Locals /\ Locals' = other)
           /\ UNCHANGED <<platform_client, spec_replicas, patched>> ]_vars

\* both calls polled the same two names and ended with different results
C17_Witness ==
    /\ names = <<"a", "b">>
    /\ other.names = <<"a", "b">>
    /\ pc = "done"
    /\ other.pc = "done"
    /\ result = "True"
    /\ other.result = "False"
    /\ polls >= 1
    /\ other.polls >= 2

\* the pods of the namespace whose name is n
PodsNamed(n) == {i \in 1..Len(pods) : pods[i].name = n}

\* C21 (as claimed): look_up_pod_ip_by_pod_name returns the IP of the pod
\* whose name is pod_name and None when no pod has that name; it never
\* returns the IP of a pod with another name.
C21_IpOfThePodNamed ==
    (op = "look_up_pod_ip_by_pod_name" /\ pc = "done") =>
        IF PodsNamed(pod_name) = {}
        THEN result = "None"
        ELSE \E i \in PodsNamed(pod_name) : result = pods[i].pod_ip

\* C22: the set_environment_variables keywords only overwrite the values of
\* the variables that exist in the named container and are keys of
\* variables_to_change: no variable is added (keys the container does not
\* have are ignored) or removed, the other variables keep their values, and
\* the other containers are left alone.
C22_OnlyNamedValuesOverwritten ==
    [][ (op \in EnvKeywords /\ pc = "start") =>
          /\ DOMAIN containers' = DOMAIN containers
          /\ \A c \in DOMAIN containers :
                LET old == containers[c].env
                    new == containers'[c].env
                IN  /\ containers'[c].has_env = containers[c].has_env
                    /\ Len(new) = Len(old)
                    /\ \A i \in 1..Len(old) :
                          /\ new[i].name = old[i].name
                          /\ new[i].value =
                                IF c = container_name
                                   /\ old[i].name \in DOMAIN variables_to_change
                                THEN variables_to_change[old[i].name]
                                ELSE old[i].value ]_vars

\* A was overwritten, B kept its value, the key C was ignored and the
\* variable A of the other container kept its value
C22_Witness ==
    /\ op \in EnvKeywords
    /\ pc = "done"
    /\ container_name = "main"
    /\ DOMAIN variables_to_change = {"A", "C"}
    /\ containers["main"].env =
          <<[name |-> "A", value |-> "new"], [name |-> "B", value |-> "old"]>>
    /\ "sidecar" \in DOMAIN containers
    /\ containers["sidecar"].env = <<[name |-> "A", value |-> "side"]>>

\* C23 (as claimed): a poller called with the names of a list joined by
\* single spaces works on that list: after the str is split the names are
\* the names of the list, so the fetches and the result are those of the
\* call with the list.
C23_StrSplitsIntoTheList ==
    [][ (names_as_str /\ pc = "start" /\ pc' # "raised") =>
          \A l \in NameLists : Join(l) = names => names' = l ]_vars

\* the platform client operations named like the two keywords
ScaleUpDownOperations ==
    {"scale_up_deployment_entity", "scale_down_deployment_entity"}

\* C24: scale_up_deployment_entity and scale_down_deployment_entity are pure
\* delegations: a call made the platform client operation of the same name
\* exactly once, with the keyword's name and namespace, and no other scaling
\* call of the platform client.
C24_PureDelegation ==
    (op \in ScaleUpDownOperations) =>
        client_calls = <<[method |-> op, args |-> <<names[1], namespace>>]>>

\* both keywords of the claim were called, in either namespace
C24_Witness ==
    /\ op = "scale_down_deployment_entity"
    /\ names = <<"b">>
    /\ namespace = "prod"
    /\ Len(client_calls) = 1
    /\ <<"Deployment", "a">> \in patched

\* C25 (as claimed): the two pollers run the same loop protocol: poll,
\* compare, test the deadline, sleep. So a call of either poller that returns
\* has polled at least once, and one that returns False has polled once more
\* after its last sleep (one poll more than sleeps).
C25_SameLoopProtocol ==
    (op \in Pollers /\ pc = "done") =>
        /\ polls >= 1
        /\ result = "False" => polls = sleeps + 1

\* the loop protocol of the claim is the one of the stateful-set poller
C25_StatefulSetPollerPollsFirst ==
    (op = "check_service_of_stateful_sets_is_scaled" /\ pc = "done") =>
        /\ polls >= 1
        /\ polls = sleeps + 1

\* the deployment poller tests the deadline first: when it returns False it
\* has polled as often as it has slept, not at all for a timeout in the past
C25_DeploymentPollerTestsDeadlineFirst ==
    (op = "check_service_is_scaled" /\ pc = "done" /\ result = "False") =>
        polls = sleeps

\* C26 (as claimed): when a poller returns True there was one instant of the
\* call at which all the named resources were in the target state together,
\* also when statuses change between the reads of one poll.
C26_TrueMeansOneInstant ==
    (op \in Pollers /\ pc = "done" /\ result = "True" /\ together.tracked) =>
        together.once

\* C26 (amended): a name is counted only when its resource is in the target
\* state at the instant of its own read, and when a poller returns True and
\* no status changed during the reads of the deciding poll, there was one
\* instant of the call at which all the named resources were in the target
\* state together.
C26_OneInstantWhenPollUndisturbed ==
    /\ [] ( (op \in Pollers /\ pc = "done" /\ result = "True"
               /\ together.tracked /\ together.changed_in # polls - 1) =>
             together.once )
    /\ [][ (op \in Pollers /\ pc = "count" /\ counter' = counter + 1) =>
             /\ idx <= Len(names)
             /\ Counts(check_func, Read(cluster, names[idx]))
             /\ cluster' = cluster ]_vars

\* True was returned for two resources by a poll without a status change,
\* after a status changed during the reads of the poll before it
C26_Witness ==
    /\ op \in Pollers
    /\ pc = "done"
    /\ result = "True"
    /\ Len(names) = 2
    /\ names[1] # names[2]
    /\ together.once
    /\ polls = 2
    /\ together.changed_in = 0

\* the number of entries of the name list that counting keyword f counts
CountedBy(f) ==
    Cardinality({i \in 1..Len(names) : Counts(f, Read(cluster, names[i]))})

\* C27: the classifications of deployments by name are mutually exclusive:
\* no entry counted by get_active_deployment_entities_count is counted by
\* get_inactive_deployment_entities_count, so on an unchanging cluster the two
\* counts add up to at most len(names) and, for a non-empty name list, they
\* are not both len(names) (check_service_is_scaled cannot return True for
\* "up" and for "down").
C27_DeploymentCountsExclusive ==
    /\ Returned("get_active_deployment_entities_count") =>
          /\ counter + CountedBy("get_inactive_deployment_entities_count")
                <= Len(names)
          /\ (names # <<>> /\ counter = Len(names)) =>
                CountedBy("get_inactive_deployment_entities_count") # Len(names)
    /\ Returned("get_inactive_deployment_entities_count") =>
          /\ counter + CountedBy("get_active_deployment_entities_count")
                <= Len(names)
          /\ (names # <<>> /\ counter = Len(names)) =>
                CountedBy("get_active_deployment_entities_count") # Len(names)

\* a is counted inactive, b is counted by neither keyword
C27_Witness ==
    /\ Returned("get_inactive_deployment_entities_count")
    /\ names = <<"a", "b">>
    /\ counter = 1
    /\ cluster["a"].replicas = 0
    /\ cluster["b"].replicas = 1
    /\ cluster["b"].unavailable_replicas = 1
    /\ CountedBy("get_active_deployment_entities_count") = 0

\* C28 (as claimed): the classifications of stateful sets by name are mutually
\* exclusive: no entry counted by get_active_stateful_sets_count is counted by
\* get_inactive_stateful_sets_count, so on an unchanging cluster the two
\* counts add up to at most len(names) and, for a non-empty name list, they
\* are not both len(names) (check_service_of_stateful_sets_is_scaled cannot
\* return True for "up" and for "down").
C28_StatefulSetCountsExclusive ==
    /\ Returned("get_active_stateful_sets_count") =>
          /\ counter + CountedBy("get_inactive_stateful_sets_count")
                <= Len(names)
          /\ (names # <<>> /\ counter = Len(names)) =>
                CountedBy("get_inactive_stateful_sets_count") # Len(names)
    /\ Returned("get_inactive_stateful_sets_count") =>
          /\ counter + CountedBy("get_active_stateful_sets_count")
                <= Len(names)
          /\ (names # <<>> /\ counter = Len(names)) =>
                CountedBy("get_active_stateful_sets_count") # Len(names)

====
